---- MODULE Spec2Model ----
(***************************************************************************)
(* Model of src/rpc/lease.rs: the LeaseClient wrapper around the generated *)
(* gRPC lease client, its option builders and its response wrappers.       *)
(*                                                                         *)
(* The state records, for the most recent call on the LeaseClient, the     *)
(* arguments of the call, the request message handed to the inner gRPC     *)
(* client (what the authority is sent), the content of the locally created *)
(* keep-alive channel, the authority's reply and the value returned to the *)
(* caller.                                                                 *)
(***************************************************************************)
EXTENDS Integers, Sequences, FiniteSets, TLC

\* ---------------------------------------------------------------- bounds
MaxId == 1
MaxTtl == 1

Ids == 0..MaxId
Ttls == 0..MaxTtl
ErrorBytes == {<<>>, <<101>>}

\* capacity of the mpsc channel created by lease_keep_alive
KeepAliveChannelCapacity == 100

\* Option<T>: None is the empty tuple, Some(x) the 1-tuple <<x>>
None == <<>>
Some(x) == <<x>>
NoRequest == [kind |-> "NoRequest"]
NoResponse == [kind |-> "NoResponse"]
TransportError == [kind |-> "TransportError"]

VARIABLES lastCall, sent, chan, authResp, result
vars == <<lastCall, sent, chan, authResp, result>>

\* ------------------------------------------------ protobuf request messages
PbLeaseGrantRequest(ttl, id) == [kind |-> "LeaseGrantRequest", ttl |-> ttl, id |-> id]
PbLeaseRevokeRequest(id) == [kind |-> "LeaseRevokeRequest", id |-> id]
PbLeaseKeepAliveRequest(id) == [kind |-> "LeaseKeepAliveRequest", id |-> id]
PbLeaseTimeToLiveRequest(id, keys) == [kind |-> "LeaseTimeToLiveRequest", id |-> id, keys |-> keys]

\* ------------------------------------------------ LeaseGrantOptions
\* An options value is the tuple struct Self(request): a 1-tuple.
LeaseGrantOptions_default == <<PbLeaseGrantRequest(0, 0)>>

LeaseGrantOptions_with_ttl_NoAssign(self, ttl) == self

LeaseGrantOptions_with_ttl(self, ttl) == <<[self[1] EXCEPT !.ttl = ttl]>>

LeaseGrantOptions_with_id(self, id) == <<[self[1] EXCEPT !.id = id]>>

LeaseGrantOptions_into(options) == options[1]

\* ------------------------------------------------ LeaseGrantResponse
LeaseGrantResponse_new(resp) == <<resp>>

LeaseGrantResponse_ttl(self) == self[1].ttl

LeaseGrantResponse_id(self) == self[1].id

LeaseGrantResponse_error(self) == self[1].error

\* ------------------------------------------------ LeaseRevokeOptions
LeaseRevokeOptions_default == <<PbLeaseRevokeRequest(0)>>

LeaseRevokeOptions_with_id(self, id) == <<[self[1] EXCEPT !.id = id]>>

LeaseRevokeOptions_into(options) == options[1]

LeaseRevokeResponse_new(resp) == <<resp>>

\* ------------------------------------------------ LeaseKeepAliveOptions
LeaseKeepAliveOptions_default == <<PbLeaseKeepAliveRequest(0)>>

LeaseKeepAliveOptions_with_id(self, id) == <<[self[1] EXCEPT !.id = id]>>

LeaseKeepAliveOptions_into(options) == options[1]

\* ------------------------------------------------ LeaseTimeToLiveOptions
LeaseTimeToLiveOptions_default == <<PbLeaseTimeToLiveRequest(0, FALSE)>>

LeaseTimeToLiveOptions_with_id(self, id) == <<[self[1] EXCEPT !.id = id]>>

LeaseTimeToLiveOptions_with_keys(self, keys) == <<[self[1] EXCEPT !.keys = keys]>>

LeaseTimeToLiveOptions_into(options) == options[1]

LeaseTimeToLiveResponse_new(resp) == <<resp>>

\* ------------------------------------------------ Option<T>::unwrap_or_default
unwrap_or_default(options, default) == IF options = None THEN default ELSE options[1]

\* ------------------------------------------------ values of the arguments
GrantOptionValues == {None} \cup {Some(<<PbLeaseGrantRequest(t, i)>>) : t \in Ttls, i \in Ids}
RevokeOptionValues == {None} \cup {Some(<<PbLeaseRevokeRequest(i)>>) : i \in Ids}
KeepAliveOptionValues == {None} \cup {Some(<<PbLeaseKeepAliveRequest(i)>>) : i \in Ids}
TimeToLiveOptionValues == {None} \cup {Some(<<PbLeaseTimeToLiveRequest(i, k)>>) : i \in Ids, k \in BOOLEAN}

\* ------------------------------------------------ replies of the authority
GrantReplies == {TransportError} \cup
    {[kind |-> "LeaseGrantResponse", id |-> i, ttl |-> t, error |-> e] :
        i \in Ids, t \in Ttls, e \in ErrorBytes}
RevokeReplies == {TransportError, [kind |-> "LeaseRevokeResponse"]}
TimeToLiveReplies == {TransportError} \cup
    {[kind |-> "LeaseTimeToLiveResponse", id |-> i, ttl |-> t, granted_ttl |-> g] :
        i \in Ids, t \in {0, MaxTtl}, g \in {0, MaxTtl}}

Ok(v) == [ok |-> TRUE, val |-> v]
Err(e) == [ok |-> FALSE, val |-> e]

Call(op, id, ttl, keys, options) ==
    [op |-> op, id |-> id, ttl |-> ttl, keys |-> keys, options |-> options]

\* ------------------------------------------------ initial state
Init ==
    /\ lastCall = Call("new", 0, 0, FALSE, None)
    /\ sent = NoRequest
    /\ chan = <<>>
    /\ authResp = NoResponse
    /\ result = Ok(<<>>)

\* ------------------------------------------------ LeaseClient::lease_grant
lease_grant_request(ttl, id, options) ==
    LeaseGrantOptions_into(
        LeaseGrantOptions_with_ttl(
            LeaseGrantOptions_with_id(
                unwrap_or_default(options, LeaseGrantOptions_default), id), ttl))

LeaseGrant ==
    \E ttl \in Ttls, id \in Ids, options \in GrantOptionValues, resp \in GrantReplies :
        /\ lastCall' = Call("lease_grant", id, ttl, FALSE, options)
        /\ sent' = lease_grant_request(ttl, id, options)
        /\ authResp' = resp
        /\ result' = IF resp = TransportError
                        THEN Err(TransportError)
                        ELSE Ok(LeaseGrantResponse_new(resp))
        /\ chan' = <<>>

\* ------------------------------------------------ LeaseClient::lease_revoke
\* The id argument is not used in the body: the request is the options value
\* (or its default) as it stands.
lease_revoke_request(id, options) ==
    LeaseRevokeOptions_into(unwrap_or_default(options, LeaseRevokeOptions_default))

LeaseRevoke ==
    \E id \in Ids, options \in RevokeOptionValues, resp \in RevokeReplies :
        /\ lastCall' = Call("lease_revoke", id, 0, FALSE, options)
        /\ sent' = lease_revoke_request(id, options)
        /\ authResp' = resp
        /\ result' = IF resp = TransportError
                        THEN Err(TransportError)
                        ELSE Ok(LeaseRevokeResponse_new(resp))
        /\ chan' = <<>>

\* ------------------------------------------------ LeaseClient::lease_keep_alive
\* A fresh mpsc channel is created, the request is pushed into it, and the
\* constants (1, 2) are returned.  The receiver half is never handed to the
\* inner client (that code is commented out), so nothing goes to the authority
\* and no reply is read.  The send cannot fail: the receiver is still in scope
\* and the fresh channel is below its capacity.
lease_keep_alive_request(id, options) ==
    LeaseKeepAliveOptions_into(
        LeaseKeepAliveOptions_with_id(
            unwrap_or_default(options, LeaseKeepAliveOptions_default), id))

LeaseKeepAlive ==
    \E id \in Ids, options \in KeepAliveOptionValues :
        /\ Len(<<>>) < KeepAliveChannelCapacity
        /\ lastCall' = Call("lease_keep_alive", id, 0, FALSE, options)
        /\ chan' = Append(<<>>, lease_keep_alive_request(id, options))
        /\ sent' = NoRequest
        /\ authResp' = NoResponse
        /\ result' = Ok(<<1, 2>>)

\* ------------------------------------------------ LeaseClient::lease_time_to_live
\* Neither the id nor the keys argument is used in the body.
lease_time_to_live_request(id, keys, options) ==
    LeaseTimeToLiveOptions_into(unwrap_or_default(options, LeaseTimeToLiveOptions_default))

LeaseTimeToLive ==
    \E id \in Ids, keys \in BOOLEAN, options \in TimeToLiveOptionValues,
       resp \in TimeToLiveReplies :
        /\ lastCall' = Call("lease_time_to_live", id, 0, keys, options)
        /\ sent' = lease_time_to_live_request(id, keys, options)
        /\ authResp' = resp
        /\ result' = IF resp = TransportError
                        THEN Err(TransportError)
                        ELSE Ok(LeaseTimeToLiveResponse_new(resp))
        /\ chan' = <<>>

Next ==
    \/ LeaseGrant
    \/ LeaseRevoke
    \/ LeaseKeepAlive
    \/ LeaseTimeToLive

Spec == Init /\ [][Next]_vars

\* ================================================================ claims

\* C10: the grant request that lease_grant(ttl, id, options) sends has ttl and
\* id equal to the arguments, whatever the options held, and the returned
\* LeaseGrantResponse exposes through id(), ttl() and error() exactly the
\* fields of the authority's response.
C10_GrantRequestAndResponse ==
    lastCall.op = "lease_grant" =>
        /\ sent = PbLeaseGrantRequest(lastCall.ttl, lastCall.id)
        /\ authResp # TransportError =>
              /\ result.ok
              /\ LeaseGrantResponse_id(result.val) = authResp.id
              /\ LeaseGrantResponse_ttl(result.val) = authResp.ttl
              /\ LeaseGrantResponse_error(result.val) = authResp.error

\* C10 witness: a grant whose options already held a different ttl and id,
\* answered by the authority with a non-empty error and a ttl of its own.
C10_Witness ==
    /\ lastCall.op = "lease_grant"
    /\ lastCall.options # None
    /\ lastCall.options[1][1].ttl # lastCall.ttl
    /\ lastCall.options[1][1].id # lastCall.id
    /\ lastCall.ttl > 0
    /\ lastCall.id > 0
    /\ result.ok
    /\ authResp.ttl # lastCall.ttl
    /\ authResp.error # <<>>

\* C1: lease_keep_alive(id, options) delivers a keep-alive request carrying
\* the id to the authority, and returns the (lease id, ttl) of the
\* authority's response for that id.
C1_KeepAliveReturnsAuthorityAnswer ==
    lastCall.op = "lease_keep_alive" =>
        /\ sent = PbLeaseKeepAliveRequest(lastCall.id)
        /\ result.ok
        /\ result.val[1] = lastCall.id
        /\ authResp # NoResponse
        /\ result.val = <<authResp.id, authResp.ttl>>

\* C2: the revoke request that lease_revoke(id, options) sends has its id
\* field equal to the id argument, for every options value.
C2_RevokeRequestCarriesId ==
    lastCall.op = "lease_revoke" => sent = PbLeaseRevokeRequest(lastCall.id)

\* C3: the request that lease_time_to_live(id, keys, options) sends has id
\* and keys equal to the arguments, for every options value.
C3_TimeToLiveRequestCarriesIdAndKeys ==
    lastCall.op = "lease_time_to_live" =>
        sent = PbLeaseTimeToLiveRequest(lastCall.id, lastCall.keys)

====
